---- MODULE Spec2Model ----
(***************************************************************************)
(* Model of LineagePanel (src/webview_provider/lineagePanel.ts, second     *)
(* class definition, lines 185-394): the per-project snapshot map          *)
(* (eventMap), the node resolver (getStartingNode), the connected-tables   *)
(* query (getConnectedTables) and the message handlers around them.        *)
(*                                                                         *)
(* Conventions.                                                            *)
(*  - A JavaScript value that may be undefined is a sequence of length at  *)
(*    most one: <<>> is undefined, <<x>> is the value x.                   *)
(*  - A JavaScript Map is the sequence of its [key, value] entries in      *)
(*    insertion order, with pairwise distinct keys.                        *)
(*  - A string that the code takes apart (node keys, file names) is the    *)
(*    sequence of its dot-free / slash-free pieces and its separators.     *)
(***************************************************************************)
EXTENDS Naturals, Integers, Sequences, FiniteSets, TLC

VARIABLES
    eventMap,          \* this.eventMap : Map<fsPath, ManifestCacheProjectAddedEvent>
    panel,             \* this._panel is defined
    activeTextEditor,  \* window.activeTextEditor (undefined or an editor)
    posted,            \* messages posted to the webview by the last handler run
    handled,           \* history: the input the last handler run was given
    lastApplied        \* history: per project, the operation applied to it last

vars == <<eventMap, panel, activeTextEditor, posted, handled, lastApplied>>

(***************************************************************************)
(* Bounds                                                                  *)
(***************************************************************************)
MaxNodes == 2     \* longest neighbor sequence of a generated view
MaxBatch == 2     \* most operations (added and removed together) of one manifest event

(***************************************************************************)
(* undefined / defined                                                     *)
(***************************************************************************)
None == <<>>
Some(x) == <<x>>
Val(o) == o[1]

Range(s) == {s[i] : i \in 1..Len(s)}

RECURSIVE SeqsUpTo(_, _)
SeqsUpTo(S, n) ==
    IF n = 0 THEN {<<>>}
    ELSE LET shorter == SeqsUpTo(S, n - 1)
         IN  shorter \cup {Append(s, x) : s \in {t \in shorter : Len(t) = n - 1}, x \in S}

(***************************************************************************)
(* JavaScript Map                                                          *)
(***************************************************************************)
MapKeys(m) == [i \in 1..Len(m) |-> m[i].key]
MapValues(m) == [i \in 1..Len(m) |-> m[i].value]
MapHas(m, k) == \E i \in 1..Len(m) : m[i].key = k
MapGet(m, k) ==
    IF MapHas(m, k)
    THEN Some(m[CHOOSE i \in 1..Len(m) : m[i].key = k].value)
    ELSE None

\* Map.prototype.set, wrongly keeping an existing entry
MapSetKeepFirst(m, k, v) ==
    IF MapHas(m, k) THEN m ELSE Append(m, [key |-> k, value |-> v])

\* Map.prototype.set: overwrite in place, or append a new entry
MapSet(m, k, v) ==
    IF MapHas(m, k)
    THEN [i \in 1..Len(m) |-> IF m[i].key = k THEN [key |-> k, value |-> v] ELSE m[i]]
    ELSE Append(m, [key |-> k, value |-> v])

\* Map.prototype.delete, wrongly dropping the oldest entry when the key is absent
MapDeleteOrEvict(m, k) ==
    IF MapHas(m, k) THEN SelectSeq(m, LAMBDA e : e.key # k)
    ELSE IF m = <<>> THEN m ELSE Tail(m)

\* Map.prototype.delete
MapDelete(m, k) == SelectSeq(m, LAMBDA e : e.key # k)

(***************************************************************************)
(* Strings taken apart by the code                                         *)
(***************************************************************************)
\* String.prototype.startsWith / endsWith
StartsWith(s, pre) == Len(s) >= Len(pre) /\ SubSeq(s, 1, Len(pre)) = pre
EndsWith(s, suf) == Len(s) >= Len(suf) /\ SubSeq(s, Len(s) - Len(suf) + 1, Len(s)) = suf

\* path.basename(p, ext): the part after the last "/", without a trailing ext
Basename(p, ext) ==
    LET slashes == {i \in 1..Len(p) : p[i] = "/"}
        last == IF slashes = {} THEN 0 ELSE CHOOSE i \in slashes : \A j \in slashes : j <= i
        base == SubSeq(p, last + 1, Len(p))
    IN  IF base # ext /\ EndsWith(base, ext)
        THEN SubSeq(base, 1, Len(base) - Len(ext))
        ELSE base

SqlExt == <<".", "sql">>
ModelMarker == <<"model", ".">>

(***************************************************************************)
(* String.prototype.localeCompare on labels (sequences of letters):        *)
(* letters first, ignoring case; case only breaks ties, lower case first.  *)
(* The code-unit order of the same letters puts upper case first.          *)
(***************************************************************************)
Letter(c) == CASE c \in {"a", "A"} -> 1 [] c \in {"b", "B"} -> 2 [] OTHER -> 3
IsUpper(c) == c \in {"A", "B"}

RECURSIVE LexCompare(_, _)
\* three-way lexicographic comparison of two sequences of weights
LexCompare(a, b) ==
    IF a = <<>> /\ b = <<>> THEN 0
    ELSE IF a = <<>> THEN -1
    ELSE IF b = <<>> THEN 1
    ELSE IF Head(a) < Head(b) THEN -1
    ELSE IF Head(a) > Head(b) THEN 1
    ELSE LexCompare(Tail(a), Tail(b))

CaseWeight(c) == IF IsUpper(c) THEN 1 ELSE 0

LocaleCompare(a, b) ==
    LET primary == LexCompare([i \in 1..Len(a) |-> Letter(a[i])],
                              [i \in 1..Len(b) |-> Letter(b[i])])
    IN  IF primary # 0 THEN primary
        ELSE LexCompare([i \in 1..Len(a) |-> CaseWeight(a[i])],
                        [i \in 1..Len(b) |-> CaseWeight(b[i])])

(***************************************************************************)
(* Array.prototype.sort((a, b) => a.label.localeCompare(b.label)):         *)
(* a stable sort (ECMAScript 2019)                                         *)
(***************************************************************************)
RECURSIVE InsertByLabel(_, _)
\* x goes after every element that does not compare greater than it
InsertByLabel(sorted, x) ==
    IF sorted = <<>> THEN <<x>>
    ELSE IF LocaleCompare(Head(sorted).label, x.label) <= 0
         THEN <<Head(sorted)>> \o InsertByLabel(Tail(sorted), x)
         ELSE <<x>> \o sorted

RECURSIVE SortByLabelFrom(_, _)
SortByLabelFrom(sorted, rest) ==
    IF rest = <<>> THEN sorted
    ELSE SortByLabelFrom(InsertByLabel(sorted, Head(rest)), Tail(rest))

\* the sort left out
SortByLabelMissing(tables) == tables

SortByLabel(tables) == SortByLabelFrom(<<>>, tables)

(***************************************************************************)
(* The active context                                                      *)
(***************************************************************************)
ProjRoot == <<"/", "proj">>
OtherRoot == <<"/", "other">>
ProjectRoots == {ProjRoot, OtherRoot}

\* dbtProjectContainer.getProjectRootpath(uri): the root of the project that
\* contains the file, undefined when no project does
GetProjectRootpath(uri) ==
    LET owners == {r \in ProjectRoots : StartsWith(uri, r \o <<"/">>)}
    IN  IF owners = {} THEN None ELSE Some(CHOOSE r \in owners : TRUE)

(***************************************************************************)
(* getGraphMetaMap (lines 332-350)                                         *)
(***************************************************************************)
\* getGraphMetaMap falling back to the oldest stored project when the active
\* file's project has no snapshot
GetGraphMetaMapAnyProject(em, editor) ==
    IF editor = None THEN None
    ELSE LET projectRootpath == GetProjectRootpath(Val(editor).fileName)
         IN  IF projectRootpath = None THEN None
             ELSE LET event == MapGet(em, Val(projectRootpath))
                  IN  IF event = None
                      THEN (IF em = <<>> THEN None ELSE Some(em[1].value.graphMetaMap))
                      ELSE Some(Val(event).graphMetaMap)

GetGraphMetaMap(em, editor) ==
    IF editor = None THEN None
    ELSE LET projectRootpath == GetProjectRootpath(Val(editor).fileName)
         IN  IF projectRootpath = None THEN None
             ELSE LET event == MapGet(em, Val(projectRootpath))
                  IN  IF event = None THEN None
                      ELSE Some(Val(event).graphMetaMap)

(***************************************************************************)
(* getStartingNode (lines 352-378)                                         *)
(***************************************************************************)
\* a count of the distinct neighbor keys instead of the sequence's length
NodesLengthDistinct(dependencyNodes, k) ==
    LET entry == MapGet(dependencyNodes, k)
    IN  IF entry = None THEN 0
        ELSE Cardinality({Val(entry).nodes[i].key : i \in 1..Len(Val(entry).nodes)})

\* dependencyNodes.get(k)?.nodes.length || 0
NodesLength(dependencyNodes, k) ==
    LET entry == MapGet(dependencyNodes, k)
    IN  IF entry = None THEN 0 ELSE Len(Val(entry).nodes)

\* the predicate of the find callback (line 363)
KeyMatches(k, fileName) ==
    EndsWith(k, <<".">> \o fileName) /\ StartsWith(k, ModelMarker)

\* a lookup taking the last element satisfying the predicate
FindLastKey(keys, fileName) ==
    LET hits == {i \in 1..Len(keys) : KeyMatches(keys[i], fileName)}
    IN  IF hits = {} THEN None
        ELSE Some(keys[CHOOSE i \in hits : \A j \in hits : j <= i])

\* Array.prototype.find: the first element satisfying the predicate
FindKey(keys, fileName) ==
    LET hits == {i \in 1..Len(keys) : KeyMatches(keys[i], fileName)}
    IN  IF hits = {} THEN None
        ELSE Some(keys[CHOOSE i \in hits : \A j \in hits : i <= j])

\* getStartingNode taking each count from the view of the other direction
GetStartingNodeSwapped(em, editor) ==
    LET graphMetaMap == GetGraphMetaMap(em, editor)
    IN  IF graphMetaMap = None THEN None
        ELSE LET fileName == Basename(Val(editor).fileName, SqlExt)
                 dependencyNodes == Val(graphMetaMap).parents
                 key == FindKey(MapKeys(dependencyNodes), fileName)
             IN  IF key = None THEN None
                 ELSE Some([node |->
                        [table |-> Val(key),
                         url |-> Val(editor).fileName,
                         upstreamCount |-> NodesLength(dependencyNodes, Val(key)),
                         downstreamCount |-> NodesLength(Val(graphMetaMap).children, Val(key))]])

GetStartingNode(em, editor) ==
    LET graphMetaMap == GetGraphMetaMap(em, editor)
    IN  IF graphMetaMap = None THEN None
        ELSE LET fileName == Basename(Val(editor).fileName, SqlExt)
                 dependencyNodes == Val(graphMetaMap).parents
                 key == FindKey(MapKeys(dependencyNodes), fileName)
             IN  IF key = None THEN None
                 ELSE Some([node |->
                        [table |-> Val(key),
                         url |-> Val(editor).fileName,
                         upstreamCount |-> NodesLength(Val(graphMetaMap).children, Val(key)),
                         downstreamCount |-> NodesLength(dependencyNodes, Val(key))]])

(***************************************************************************)
(* getConnectedTables (lines 265-297)                                      *)
(***************************************************************************)
\* addToTables pushing every child, seen before or not
AddToTablesPush(tables, key, value) ==
    Append(tables, [key |-> key,
                    value |-> [table |-> key, url |-> value.url,
                               count |-> value.count, label |-> value.label]])

\* addToTables letting the last child of a key win
AddToTablesLast(tables, key, value) ==
    MapSet(tables, key,
           [table |-> key, url |-> value.url, count |-> value.count, label |-> value.label])

\* addToTables (lines 279-283)
AddToTables(tables, key, value) ==
    IF ~MapHas(tables, key)
    THEN MapSet(tables, key,
                [table |-> key, url |-> value.url, count |-> value.count, label |-> value.label])
    ELSE tables

RECURSIVE ForEachChildPresence(_, _, _)
\* node.nodes.forEach counting whether the child has an entry, not its neighbors
ForEachChildPresence(tables, nodes, dependencyNodes) ==
    IF nodes = <<>> THEN tables
    ELSE LET child == Head(nodes)
             count == IF MapHas(dependencyNodes, child.key) THEN 1 ELSE 0
         IN  ForEachChildPresence(
                 AddToTables(tables, child.key,
                             [url |-> child.url, count |-> count, label |-> child.label]),
                 Tail(nodes), dependencyNodes)

RECURSIVE ForEachChild(_, _, _)
\* node.nodes.forEach (lines 284-293)
ForEachChild(tables, nodes, dependencyNodes) ==
    IF nodes = <<>> THEN tables
    ELSE LET child == Head(nodes)
             count == NodesLength(dependencyNodes, child.key)
         IN  ForEachChild(
                 AddToTables(tables, child.key,
                             [url |-> child.url, count |-> count, label |-> child.label]),
                 Tail(nodes), dependencyNodes)

\* getConnectedTables answering an unknown node like a node without neighbors
GetConnectedTablesEmpty(em, editor, key, table) ==
    LET graphMetaMap == GetGraphMetaMap(em, editor)
    IN  IF graphMetaMap = None THEN None
        ELSE LET dependencyNodes == Val(graphMetaMap)[key]
                 node == MapGet(dependencyNodes, table)
             IN  IF node = None THEN Some(<<>>)
                 ELSE Some(SortByLabel(MapValues(
                          ForEachChild(<<>>, Val(node).nodes, dependencyNodes))))

\* getConnectedTables taking the neighbor list from the active project's
\* snapshot and the counts from the oldest stored snapshot
GetConnectedTablesTorn(em, editor, key, table) ==
    LET graphMetaMap == GetGraphMetaMap(em, editor)
    IN  IF graphMetaMap = None THEN None
        ELSE LET dependencyNodes == Val(graphMetaMap)[key]
                 node == MapGet(dependencyNodes, table)
             IN  IF node = None THEN None
                 ELSE Some(SortByLabel(MapValues(
                          ForEachChild(<<>>, Val(node).nodes,
                                       em[1].value.graphMetaMap[key]))))

GetConnectedTables(em, editor, key, table) ==
    LET graphMetaMap == GetGraphMetaMap(em, editor)
    IN  IF graphMetaMap = None THEN None
        ELSE LET dependencyNodes == Val(graphMetaMap)[key]
                 node == MapGet(dependencyNodes, table)
             IN  IF node = None THEN None
                 ELSE Some(SortByLabel(MapValues(
                          ForEachChild(<<>>, Val(node).nodes, dependencyNodes))))

\* getUpstreamTables reading the view of the other direction
GetUpstreamTablesSwapped(em, editor, params) ==
    GetConnectedTables(em, editor, "parents", params.table)

\* lines 299-305
GetUpstreamTables(em, editor, params) == GetConnectedTables(em, editor, "children", params.table)
GetDownstreamTables(em, editor, params) == GetConnectedTables(em, editor, "parents", params.table)

(***************************************************************************)
(* handleRequest (lines 243-263): the messages it posts                    *)
(***************************************************************************)
\* handleRequest treating every url but "upstreamTables" as "downstreamTables"
RequestBodyElseDownstream(em, editor, args) ==
    IF args.url = "upstreamTables"
    THEN Some([tables |-> GetUpstreamTables(em, editor, args.params)])
    ELSE Some([tables |-> GetDownstreamTables(em, editor, args.params)])

RequestBody(em, editor, args) ==
    IF args.url = "upstreamTables"
    THEN Some([tables |-> GetUpstreamTables(em, editor, args.params)])
    ELSE IF args.url = "downstreamTables"
    THEN Some([tables |-> GetDownstreamTables(em, editor, args.params)])
    ELSE None

\* handleRequest answering only when it has a body
HandleRequestPostsWithBody(em, editor, hasPanel, args) ==
    IF hasPanel /\ RequestBody(em, editor, args) # None
    THEN <<[command |-> "response",
            args |-> [id |-> args.id, body |-> RequestBody(em, editor, args), status |-> TRUE]]>>
    ELSE <<>>

HandleRequestPosts(em, editor, hasPanel, args) ==
    IF hasPanel
    THEN <<[command |-> "response",
            args |-> [id |-> args.id, body |-> RequestBody(em, editor, args), status |-> TRUE]]>>
    ELSE <<>>

(***************************************************************************)
(* renderStartingNode (lines 222-230): the messages it posts               *)
(***************************************************************************)
RenderStartingNodePosts(em, editor, hasPanel) ==
    IF ~hasPanel THEN <<>>
    ELSE <<[command |-> "render", args |-> GetStartingNode(em, editor)]>>

(***************************************************************************)
(* onManifestCacheChanged (lines 212-220): the new eventMap                *)
(***************************************************************************)
RECURSIVE ForEachAdded(_, _)
ForEachAdded(em, added) ==
    IF added = <<>> THEN em
    ELSE ForEachAdded(MapSet(em, Head(added).projectRoot, Head(added)), Tail(added))

\* removed.forEach clearing the whole map on a removal
ForEachRemovedClearing(em, removed) ==
    IF removed = <<>> THEN em ELSE <<>>

RECURSIVE ForEachRemoved(_, _)
ForEachRemoved(em, removed) ==
    IF removed = <<>> THEN em
    ELSE ForEachRemoved(MapDelete(em, Head(removed).projectRoot), Tail(removed))

OnManifestCacheChanged(em, event) ==
    ForEachRemoved(ForEachAdded(em, event.added), event.removed)

\* the operations one event applies, in the order the handler applies them
OperationsOf(event) ==
    [i \in 1..Len(event.added) |->
        [op |-> "Added", projectRoot |-> event.added[i].projectRoot,
         snapshot |-> Some(event.added[i].graphMetaMap)]]
    \o
    [i \in 1..Len(event.removed) |->
        [op |-> "Removed", projectRoot |-> event.removed[i].projectRoot, snapshot |-> None]]

(***************************************************************************)
(* Inputs: node keys, neighbor references, views, snapshots, files         *)
(***************************************************************************)
kOrders == <<"model", ".", "proj", ".", "orders">>
kSubOrders == <<"model", ".", "sub", ".", "orders">>
kStg == <<"source", ".", "proj", ".", "stg">>
Keys == {kOrders, kSubOrders, kStg}

Urls == {"/proj/x.sql", "/proj/y.sql"}
Labels == {<<"a">>, <<"B">>}
\* the neighbors kOrders can have: the dependency graph has no self-loop
NeighborRefs == [key : Keys \ {kOrders}, url : Urls, label : Labels]
NodeLists == SeqsUpTo(NeighborRefs, MaxNodes)

\* a neighbor sequence of length n whose content no query of another key reads
Filler(n) == [i \in 1..n |-> [key |-> kStg, url |-> "/proj/x.sql", label |-> <<"a">>]]
Fillers == {Filler(n) : n \in 0..MaxNodes}

Entry(k, nodes) == [key |-> k, value |-> [nodes |-> nodes]]

\* the Map holding the given optional entries, in the given order
MapOf(entries) ==
    LET present == SelectSeq(entries, LAMBDA e : e.nodes # None)
    IN  [i \in 1..Len(present) |-> Entry(present[i].key, Val(present[i].nodes))]

OptionalFillers == {None} \cup {Some(f) : f \in Fillers}
ShortFillers == {None, Some(Filler(0)), Some(Filler(1))}

\* views in which kOrders has an arbitrary neighbor sequence; a query of kOrders
\* reads the other entries only through their lengths
RichViews ==
    {MapOf(<<[key |-> kOrders, nodes |-> Some(nl)],
             [key |-> kSubOrders, nodes |-> a],
             [key |-> kStg, nodes |-> b]>>) :
        nl \in NodeLists, a \in ShortFillers, b \in ShortFillers}

\* views whose entries hold at most one neighbor
SmallViews ==
    {MapOf(<<[key |-> kOrders, nodes |-> a],
             [key |-> kStg, nodes |-> b]>>) :
        a \in {None, Some(Filler(1))}, b \in {None, Some(Filler(1))}}

\* every insertion order of every subset of the keys
KeyOrders == {ks \in SeqsUpTo(Keys, Cardinality(Keys)) :
                \A i, j \in 1..Len(ks) : i # j => ks[i] # ks[j]}

\* views of filler sequences in a fixed insertion order
FlatViews ==
    {MapOf(<<[key |-> kOrders, nodes |-> a],
             [key |-> kSubOrders, nodes |-> b],
             [key |-> kStg, nodes |-> c]>>) :
        a \in OptionalFillers, b \in OptionalFillers, c \in OptionalFillers}

\* views of filler sequences in every insertion order
OrderedViews ==
    UNION {{[i \in 1..Len(ks) |-> Entry(ks[i], f[i])] : f \in [1..Len(ks) -> Fillers]} :
            ks \in KeyOrders}

QuerySnapshots == [children : RichViews, parents : SmallViews]
                    \cup [children : SmallViews, parents : RichViews]
ResolveSnapshots == [children : FlatViews, parents : OrderedViews]

fOrders == <<"/", "proj", "/", "models", "/", "orders", ".", "sql">>
fStg == <<"/", "proj", "/", "stg", ".", "sql">>
fMissing == <<"/", "proj", "/", "missing", ".", "sql">>
fOther == <<"/", "other", "/", "orders", ".", "sql">>
fOutside == <<"/", "tmp", "/", "orders", ".", "sql">>

Editor(f) == Some([fileName |-> f])

\* the snapshots the manifest events of Spec carry
SnapA == [children |-> <<Entry(kOrders, <<[key |-> kStg, url |-> "/proj/x.sql", label |-> <<"a">>]>>),
                         Entry(kStg, <<>>)>>,
          parents |-> <<Entry(kOrders, <<>>),
                        Entry(kStg, <<[key |-> kOrders, url |-> "/proj/y.sql", label |-> <<"B">>]>>)>>]
SnapB == [children |-> <<Entry(kSubOrders, <<[key |-> kStg, url |-> "/proj/x.sql", label |-> <<"B">>],
                                             [key |-> kOrders, url |-> "/proj/y.sql", label |-> <<"a">>]>>)>>,
          parents |-> <<Entry(kSubOrders, <<>>), Entry(kOrders, Filler(1))>>]
StoreSnapshots == {SnapA, SnapB}

AddedEvents == [projectRoot : ProjectRoots, graphMetaMap : StoreSnapshots]
RemovedEvents == [projectRoot : ProjectRoots]
ManifestEvents ==
    UNION {[added : {s \in SeqsUpTo(AddedEvents, n) : Len(s) = n},
            removed : SeqsUpTo(RemovedEvents, MaxBatch - n)] : n \in 0..MaxBatch}

Editors == {None, Editor(fOrders), Editor(fMissing), Editor(fOther), Editor(fOutside)}

RequestUrls == {"upstreamTables", "downstreamTables", "columnLineage"}
RequestIds == {7, 8}
Requests == [command : {"request"},
             args : [url : RequestUrls, id : RequestIds, params : [table : Keys]]]
OpenFiles == [command : {"openFile"}, url : {"", "/proj/x.sql"}]

(***************************************************************************)
(* Handlers                                                                *)
(***************************************************************************)
NoOperation == [op |-> "None", projectRoot |-> <<>>, snapshot |-> None]

\* the operation of ops applied last to project p, or last when ops has none
LastOperation(ops, p, last) ==
    LET mine == {i \in 1..Len(ops) : ops[i].projectRoot = p}
    IN  IF mine = {} THEN last
        ELSE ops[CHOOSE i \in mine : \A j \in mine : j <= i]

\* onManifestCacheChanged rendering before it applies the event
ManifestChangedRenderFirst(event) ==
    /\ eventMap' = OnManifestCacheChanged(eventMap, event)
    /\ posted' = RenderStartingNodePosts(eventMap, activeTextEditor, panel)
    /\ handled' = [kind |-> "manifest", input |-> event]
    /\ lastApplied' = [p \in ProjectRoots |->
                         LastOperation(OperationsOf(event), p, lastApplied[p])]
    /\ UNCHANGED <<panel, activeTextEditor>>

\* dbtProjectContainer.onManifestChanged callback (lines 197-199, 212-220)
ManifestChanged(event) ==
    /\ eventMap' = OnManifestCacheChanged(eventMap, event)
    /\ posted' = RenderStartingNodePosts(eventMap', activeTextEditor, panel)
    /\ handled' = [kind |-> "manifest", input |-> event]
    /\ lastApplied' = [p \in ProjectRoots |->
                         LastOperation(OperationsOf(event), p, lastApplied[p])]
    /\ UNCHANGED <<panel, activeTextEditor>>

\* window.onDidChangeActiveTextEditor callback (lines 201-209)
ActiveTextEditorChanged(editor) ==
    /\ activeTextEditor' = editor
    /\ posted' = IF editor = None THEN <<>>
                 ELSE IF ~panel THEN <<>>
                 ELSE RenderStartingNodePosts(eventMap, editor, panel)
    /\ handled' = [kind |-> "editor", input |-> editor]
    /\ UNCHANGED <<eventMap, panel, lastApplied>>

\* resolveWebviewView (lines 232-241)
ResolveWebviewView ==
    /\ panel' = TRUE
    /\ posted' = <<>>
    /\ handled' = [kind |-> "resolve", input |-> <<>>]
    /\ UNCHANGED <<eventMap, activeTextEditor, lastApplied>>

\* the store after a query that sorts the stored neighbor list of the
\* requested node in place instead of sorting a fresh array
SortStoredInPlace(em, editor, args) ==
    LET key == IF args.url = "upstreamTables" THEN "children" ELSE "parents"
        table == args.params.table
    IN  IF \/ args.url \notin {"upstreamTables", "downstreamTables"}
           \/ GetConnectedTables(em, editor, key, table) = None
        THEN em
        ELSE LET root == Val(GetProjectRootpath(Val(editor).fileName))
                 SortedView(view) ==
                     [j \in 1..Len(view) |->
                        IF view[j].key = table
                        THEN Entry(table, SortByLabel(view[j].value.nodes))
                        ELSE view[j]]
             IN  [i \in 1..Len(em) |->
                    IF em[i].key = root
                    THEN [em[i] EXCEPT !.value.graphMetaMap[key] = SortedView(@)]
                    ELSE em[i]]

\* onDidReceiveMessage with a query that sorts the stored neighbor list
ReceiveMessageSortingStored(message) ==
    /\ panel
    /\ posted' = IF message.command = "request"
                 THEN HandleRequestPosts(eventMap, activeTextEditor, panel, message.args)
                 ELSE <<>>
    /\ eventMap' = IF message.command = "request"
                   THEN SortStoredInPlace(eventMap, activeTextEditor, message.args)
                   ELSE eventMap
    /\ handled' = [kind |-> message.command, input |-> message]
    /\ UNCHANGED <<panel, activeTextEditor, lastApplied>>

\* webview.onDidReceiveMessage callback (lines 307-330)
ReceiveMessage(message) ==
    /\ panel
    /\ posted' = IF message.command = "request"
                 THEN HandleRequestPosts(eventMap, activeTextEditor, panel, message.args)
                 ELSE <<>>
    /\ handled' = [kind |-> message.command, input |-> message]
    /\ UNCHANGED <<eventMap, panel, activeTextEditor, lastApplied>>

(***************************************************************************)
(* The panel over its lifetime                                             *)
(***************************************************************************)
Init ==
    /\ eventMap = <<>>
    /\ panel = FALSE
    /\ activeTextEditor \in Editors
    /\ posted = <<>>
    /\ handled = [kind |-> "none", input |-> <<>>]
    /\ lastApplied = [p \in ProjectRoots |-> NoOperation]

Next ==
    \/ \E event \in ManifestEvents : ManifestChanged(event)
    \/ \E editor \in Editors : ActiveTextEditorChanged(editor)
    \/ ResolveWebviewView
    \/ \E message \in Requests \cup OpenFiles : ReceiveMessage(message)

Spec == Init /\ [][Next]_vars

(***************************************************************************)
(* The connected-tables query over generated snapshots: one request per    *)
(* snapshot, a request changing nothing that a later one reads             *)
(***************************************************************************)
StoreOf(snapshot) == <<[key |-> ProjRoot,
                        value |-> [projectRoot |-> ProjRoot, graphMetaMap |-> snapshot]]>>

QueryRequests == {m \in Requests : m.args.id = 7 /\ m.args.url # "columnLineage"}

InitQuery ==
    /\ \E snapshot \in QuerySnapshots : eventMap = StoreOf(snapshot)
    /\ panel = TRUE
    /\ activeTextEditor = Editor(fOrders)
    /\ posted = <<>>
    /\ handled = [kind |-> "none", input |-> <<>>]
    /\ lastApplied = [p \in ProjectRoots |-> NoOperation]

NextQuery ==
    /\ handled.kind = "none"
    /\ \E message \in QueryRequests : ReceiveMessage(message)

SpecQuery == InitQuery /\ [][NextQuery]_vars

(***************************************************************************)
(* The node resolver over generated snapshots                              *)
(***************************************************************************)
ProjFiles == {Editor(fOrders), Editor(fStg), Editor(fMissing)}

InitResolve ==
    /\ \E snapshot \in ResolveSnapshots : eventMap = StoreOf(snapshot)
    /\ panel = TRUE
    /\ activeTextEditor = Editor(fMissing)
    /\ posted = <<>>
    /\ handled = [kind |-> "none", input |-> <<>>]
    /\ lastApplied = [p \in ProjectRoots |-> NoOperation]

NextResolve ==
    /\ handled.kind = "none"
    /\ \E editor \in ProjFiles : ActiveTextEditorChanged(editor)

SpecResolve == InitResolve /\ [][NextResolve]_vars

(***************************************************************************)
(* Claims about the store                                                  *)
(***************************************************************************)
\* get(p): the snapshot stored for project p
StoredSnapshot(em, p) ==
    LET at == {i \in 1..Len(em) : em[i].key = p}
    IN  IF at = {} THEN None ELSE Some(em[CHOOSE i \in at : TRUE].value.graphMetaMap)

\* C1: the store holds at most one snapshot per project, and get(p) is the
\* snapshot of the Added(p, _) applied last if no Removed(p) was applied after
\* it, and absent otherwise.
C1_LastAppliedWins ==
    \A p \in ProjectRoots :
        /\ Cardinality({i \in 1..Len(eventMap) : eventMap[i].key = p}) <= 1
        /\ StoredSnapshot(eventMap, p) =
              IF lastApplied[p].op = "Added" THEN lastApplied[p].snapshot ELSE None

\* Added(p, SnapA) then Added(p, SnapB) has been applied
C1_Witness ==
    /\ handled.kind = "manifest"
    /\ handled.input.added = <<[projectRoot |-> ProjRoot, graphMetaMap |-> SnapA],
                               [projectRoot |-> ProjRoot, graphMetaMap |-> SnapB]>>
    /\ handled.input.removed = <<>>
    /\ StoredSnapshot(eventMap, ProjRoot) = Some(SnapB)

\* the event handled last only removes project p, once or several times
RemovesOnly(h, p) ==
    /\ h.kind = "manifest"
    /\ h.input.added = <<>>
    /\ h.input.removed # <<>>
    /\ \A i \in 1..Len(h.input.removed) : h.input.removed[i].projectRoot = p

\* C2: Removed(p) applied to a store without p leaves the store as it was, p
\* still absent; Removed(p) applied twice, in one event or in two, leaves what
\* Removed(p) applied once leaves: the store without p, the rest as it was.
C2_IdempotentRemoval ==
    [][\A p \in ProjectRoots :
          RemovesOnly(handled', p) =>
            /\ StoredSnapshot(eventMap, p) = None =>
                  eventMap' = eventMap /\ StoredSnapshot(eventMap', p) = None
            /\ RemovesOnly(handled, p) => eventMap' = eventMap
            /\ eventMap' = SelectSeq(eventMap, LAMBDA e : e.key # p)]_vars

\* Removed(p) was applied twice by one event to a store holding another project
C2_Witness ==
    /\ RemovesOnly(handled, OtherRoot)
    /\ Len(handled.input.removed) = 2
    /\ lastApplied[OtherRoot].op = "Removed"
    /\ StoredSnapshot(eventMap, ProjRoot) # None

(***************************************************************************)
(* Claims about the connected-tables query                                 *)
(***************************************************************************)
\* a request has been answered
Answered == handled.kind = "request" /\ Len(posted) = 1
RequestedUrl == handled.input.args.url
RequestedTable == handled.input.args.params.table
\* the tables of the response: undefined, or the result sequence
AnsweredTables == Val(posted[1].args.body).tables

\* the view of the requested direction in the snapshot of the active project
ViewOf(url) ==
    LET snapshot == Val(StoredSnapshot(eventMap, ProjRoot))
    IN  IF url = "upstreamTables" THEN snapshot.children ELSE snapshot.parents
OtherViewOf(url) ==
    LET snapshot == Val(StoredSnapshot(eventMap, ProjRoot))
    IN  IF url = "upstreamTables" THEN snapshot.parents ELSE snapshot.children

\* the neighbor sequence stored for key k in view v, undefined when v has no entry
StoredNodes(v, k) ==
    LET at == {i \in 1..Len(v) : v[i].key = k}
    IN  IF at = {} THEN None ELSE Some(v[CHOOSE i \in at : TRUE].value.nodes)

RequestedNodes == StoredNodes(ViewOf(RequestedUrl), RequestedTable)

\* C3: no two results of a query have the same table.
C3_TablesDistinct ==
    (Answered /\ AnsweredTables # None) =>
        \A i, j \in 1..Len(Val(AnsweredTables)) :
            i # j => Val(AnsweredTables)[i].table # Val(AnsweredTables)[j].table

\* the queried node lists one key twice, and the query has answered
C3_Witness ==
    /\ Answered
    /\ RequestedNodes # None
    /\ Len(Val(RequestedNodes)) = 2
    /\ Val(RequestedNodes)[1].key = Val(RequestedNodes)[2].key
    /\ Len(Val(AnsweredTables)) = 1

\* C4: the result for a key carries the url and the label of the first
\* neighbor with that key in stored order (and the count that goes with the key).
C4_FirstOccurrenceWins ==
    (Answered /\ AnsweredTables # None) =>
        \A t \in Range(Val(AnsweredTables)) :
            LET nodes == Val(RequestedNodes)
                occurrences == {i \in 1..Len(nodes) : nodes[i].key = t.table}
                first == CHOOSE i \in occurrences : \A j \in occurrences : i <= j
            IN  /\ occurrences # {}
                /\ t.url = nodes[first].url
                /\ t.label = nodes[first].label
                /\ t.count = IF StoredNodes(ViewOf(RequestedUrl), nodes[first].key) = None
                             THEN 0
                             ELSE Len(Val(StoredNodes(ViewOf(RequestedUrl), nodes[first].key)))

\* one key is listed twice with different urls and labels, and the query has answered
C4_Witness ==
    /\ Answered
    /\ RequestedNodes # None
    /\ Len(Val(RequestedNodes)) = 2
    /\ Val(RequestedNodes)[1].key = Val(RequestedNodes)[2].key
    /\ Val(RequestedNodes)[1].url # Val(RequestedNodes)[2].url
    /\ Val(RequestedNodes)[1].label # Val(RequestedNodes)[2].label
    /\ Val(AnsweredTables)[1].label = Val(RequestedNodes)[1].label

\* C5: each result's count is the length of the neighbor sequence stored for
\* the result's key in the queried view, 0 when the view has no entry for it.
C5_DegreeAccuracy ==
    (Answered /\ AnsweredTables # None) =>
        \A t \in Range(Val(AnsweredTables)) :
            LET own == StoredNodes(ViewOf(RequestedUrl), t.table)
            IN  t.count = IF own = None THEN 0 ELSE Len(Val(own))

\* two results: one whose key has a neighbor of its own in the queried view, and
\* one whose key has no entry there although the other view has one
C5_Witness ==
    /\ Answered
    /\ AnsweredTables # None
    /\ \E t, u \in Range(Val(AnsweredTables)) :
          /\ t.count = 1
          /\ u.count = 0
          /\ StoredNodes(ViewOf(RequestedUrl), u.table) = None
          /\ StoredNodes(OtherViewOf(RequestedUrl), u.table) # None

\* the keys of a neighbor sequence
NeighborKeys(nodes) == {nodes[i].key : i \in 1..Len(nodes)}

\* C6: a query result is ordered non-decreasingly by label under the label
\* comparison, and holds exactly the deduplicated neighbors: one result for
\* each key of the stored neighbor sequence and no other.
C6_SortedPermutation ==
    (Answered /\ AnsweredTables # None) =>
        LET tables == Val(AnsweredTables)
        IN  /\ \A i, j \in 1..Len(tables) :
                  i < j => LocaleCompare(tables[i].label, tables[j].label) <= 0
            /\ {tables[i].table : i \in 1..Len(tables)} = NeighborKeys(Val(RequestedNodes))
            /\ Len(tables) = Cardinality(NeighborKeys(Val(RequestedNodes)))

\* the stored order is not the label order (and not the code-unit order of the
\* result): the neighbor labelled "B" is stored before the one labelled "a"
C6_Witness ==
    /\ Answered
    /\ RequestedNodes # None
    /\ Len(Val(RequestedNodes)) = 2
    /\ Val(RequestedNodes)[1].label = <<"B">>
    /\ Val(RequestedNodes)[2].label = <<"a">>
    /\ Len(Val(AnsweredTables)) = 2
    /\ Val(AnsweredTables)[1].table = Val(RequestedNodes)[2].key

\* the store holding, for the active project, the current snapshot with the
\* view that url does not select replaced by view
WithOtherView(url, view) ==
    LET snapshot == Val(StoredSnapshot(eventMap, ProjRoot))
    IN  StoreOf(IF url = "upstreamTables"
                THEN [children |-> snapshot.children, parents |-> view]
                ELSE [children |-> view, parents |-> snapshot.parents])

\* the views tried in place of the view a query does not select: the empty
\* view, and views giving every key the same two neighbors
AlternativeViews ==
    {<<>>} \cup
    {<<Entry(kStg, <<ref, ref>>), Entry(kSubOrders, <<ref, ref>>), Entry(kOrders, <<ref, ref>>)>> :
        ref \in {r \in NeighborRefs : r.label = <<"B">>}}

\* C7: a query reads only the view of its direction: it answers with a result
\* exactly when that view has an entry for the node, the result holds the keys
\* stored there, and every snapshot with the same view of that direction gets
\* the same response body, whatever its other view is.
C7_ReadsRequestedViewOnly ==
    Answered =>
        /\ AnsweredTables # None <=> RequestedNodes # None
        /\ AnsweredTables # None =>
              {t.table : t \in Range(Val(AnsweredTables))} = NeighborKeys(Val(RequestedNodes))
        /\ \A view \in AlternativeViews :
              RequestBody(WithOtherView(RequestedUrl, view), activeTextEditor,
                          handled.input.args)
                = posted[1].args.body

\* an upstream query has answered with results although the other view has no
\* entry for the node
C7_Witness ==
    /\ Answered
    /\ RequestedUrl = "upstreamTables"
    /\ AnsweredTables # None
    /\ Len(Val(AnsweredTables)) = 2
    /\ StoredNodes(OtherViewOf(RequestedUrl), RequestedTable) = None

\* C10 as claimed: a node without an entry in the selected view of an existing
\* snapshot gets the empty sequence.
C10_AsClaimed ==
    (Answered /\ RequestedNodes = None) => AnsweredTables = Some(<<>>)

\* C10, amended: a node without an entry in the selected view of an existing
\* snapshot gets a response whose body has undefined tables, unlike a node
\* whose stored neighbor sequence is empty, which gets the empty sequence.
C10_UnknownNodeUndefined ==
    Answered =>
        /\ posted[1].args.status = TRUE
        /\ posted[1].args.body # None
        /\ RequestedNodes = None => AnsweredTables = None
        /\ RequestedNodes = Some(<<>>) => AnsweredTables = Some(<<>>)

\* the node has no entry in the selected view, and the request has been answered
C10_Witness ==
    /\ Answered
    /\ StoredSnapshot(eventMap, ProjRoot) # None
    /\ RequestedNodes = None
    /\ StoredNodes(OtherViewOf(RequestedUrl), RequestedTable) # None

(***************************************************************************)
(* Claims about the node resolver                                          *)
(***************************************************************************)
\* the resolver has run for the file now active, and its result was posted
Resolved == handled.kind = "editor" /\ Len(posted) = 1 /\ posted[1].command = "render"
\* the result: undefined, or a record with the node
ResolvedNode == posted[1].args

\* the base name of the active file, as the pieces of the string
ActiveBaseName ==
    LET f == Val(activeTextEditor).fileName
    IN  IF Len(f) >= 2 /\ SubSeq(f, Len(f) - 1, Len(f)) = <<".", "sql">>
        THEN <<f[Len(f) - 2]>>
        ELSE <<f[Len(f)]>>

\* the positions, in insertion order, of the downstream-view keys that start
\* with "model." and end with "." and the base name
MatchingKeys ==
    LET keys == MapKeys(Val(StoredSnapshot(eventMap, ProjRoot)).parents)
    IN  {i \in 1..Len(keys) :
            /\ Len(keys[i]) >= 3
            /\ keys[i][1] = "model" /\ keys[i][2] = "."
            /\ <<keys[i][Len(keys[i]) - 1]>> = <<".">>
            /\ <<keys[i][Len(keys[i])]>> = ActiveBaseName}

\* C8 as claimed: the resolver returns a node only when exactly one key matches,
\* and returns absent when no key or more than one key matches.
C8_AsClaimed ==
    Resolved => (ResolvedNode # None <=> Cardinality(MatchingKeys) = 1)

\* C8, amended: the resolver returns absent exactly when no key matches;
\* otherwise it returns the matching key that comes first in the insertion
\* order of the downstream-view, also when several keys match.
C8_FirstMatchWins ==
    Resolved =>
        LET keys == MapKeys(Val(StoredSnapshot(eventMap, ProjRoot)).parents)
        IN  IF MatchingKeys = {} THEN ResolvedNode = None
            ELSE /\ ResolvedNode # None
                 /\ Val(ResolvedNode).node.table =
                       keys[CHOOSE i \in MatchingKeys : \A j \in MatchingKeys : i <= j]

\* two keys match the active file, model.sub.orders inserted before
\* model.proj.orders, and the resolver has returned
C8_Witness ==
    /\ Resolved
    /\ Cardinality(MatchingKeys) = 2
    /\ ResolvedNode # None
    /\ Val(ResolvedNode).node.table = kSubOrders

\* C9: a resolved node's upstreamCount is the length of its key's neighbor
\* sequence in the upstream-view (children), 0 without an entry there, and its
\* downstreamCount the length of its neighbor sequence in the downstream-view
\* (parents), both of the snapshot stored for the active file's project.
C9_ResolverCounts ==
    (Resolved /\ ResolvedNode # None) =>
        LET snapshot == Val(StoredSnapshot(eventMap, ProjRoot))
            node == Val(ResolvedNode).node
            up == StoredNodes(snapshot.children, node.table)
            down == StoredNodes(snapshot.parents, node.table)
        IN  /\ node.upstreamCount = IF up = None THEN 0 ELSE Len(Val(up))
            /\ node.downstreamCount = IF down = None THEN 0 ELSE Len(Val(down))

\* a node was resolved whose key has no entry in the upstream-view and two
\* neighbors in the downstream-view
C9_Witness ==
    /\ Resolved
    /\ ResolvedNode # None
    /\ StoredNodes(Val(StoredSnapshot(eventMap, ProjRoot)).children,
                   Val(ResolvedNode).node.table) = None
    /\ Val(ResolvedNode).node.upstreamCount = 0
    /\ Val(ResolvedNode).node.downstreamCount = 2

(***************************************************************************)
(* Claims about render notifications                                       *)
(***************************************************************************)
\* C11 as claimed: a render notification is sent whenever the current node
\* changes: a handler run that starts and ends with the panel existing and
\* leaves the resolver with another result for the store and the active file
\* than it had before posts one render message carrying the new result.
C11_AsClaimed ==
    [][(/\ panel /\ panel'
        /\ GetStartingNode(eventMap', activeTextEditor')
             # GetStartingNode(eventMap, activeTextEditor))
       => posted' = <<[command |-> "render",
                       args |-> GetStartingNode(eventMap', activeTextEditor')]>>]_vars

\* C12: a manifest event is applied in full, and then, if the panel exists,
\* exactly one render message is posted, computed from the store as the event
\* left it; without a panel nothing is posted. The handler run ends before
\* another input is handled.
C12_RenderAfterUpdate ==
    handled.kind = "manifest" =>
        /\ \A p \in ProjectRoots :
              StoredSnapshot(eventMap, p) =
                 IF lastApplied[p].op = "Added" THEN lastApplied[p].snapshot ELSE None
        /\ panel => posted = <<[command |-> "render",
                                 args |-> GetStartingNode(eventMap, activeTextEditor)]>>
        /\ ~panel => posted = <<>>

\* an event that adds and then removes the active file's project, leaving a
\* store in which the file has no node, has been handled and rendered
C12_Witness ==
    /\ handled.kind = "manifest"
    /\ panel
    /\ activeTextEditor = Editor(fOrders)
    /\ handled.input.added = <<[projectRoot |-> ProjRoot, graphMetaMap |-> SnapA]>>
    /\ handled.input.removed = <<[projectRoot |-> ProjRoot]>>
    /\ posted = <<[command |-> "render", args |-> None]>>

(***************************************************************************)
(* Claims about absent results                                             *)
(***************************************************************************)
\* the project of the active file, by the first directory of its path;
\* undefined without an active file or for a file of no known project
ActiveProject ==
    IF activeTextEditor = None THEN None
    ELSE LET f == Val(activeTextEditor).fileName
         IN  IF <<f[1], f[2]>> \in ProjectRoots THEN Some(<<f[1], f[2]>>) ELSE None

\* there is no active file, or it belongs to no known project, or the store
\* holds no snapshot for its project
NoActiveSnapshot ==
    \/ ActiveProject = None
    \/ StoredSnapshot(eventMap, Val(ActiveProject)) = None

\* C13: without an active file, with an active file of no known project, or
\* without a snapshot for the active file's project, the resolver returns
\* absent and both queries return absent for every node key, whatever the
\* store holds for other projects; a request still gets its response and a
\* render carries no node.
C13_AbsentContext ==
    NoActiveSnapshot =>
        /\ GetStartingNode(eventMap, activeTextEditor) = None
        /\ \A k \in Keys :
              /\ GetUpstreamTables(eventMap, activeTextEditor, [table |-> k]) = None
              /\ GetDownstreamTables(eventMap, activeTextEditor, [table |-> k]) = None
        /\ (handled.kind = "request" /\ handled.input.args.url # "columnLineage") =>
              /\ Len(posted) = 1
              /\ posted[1].args.status = TRUE
              /\ posted[1].args.body = Some([tables |-> None])
        /\ (posted # <<>> /\ handled.kind \in {"manifest", "editor"}) =>
              posted = <<[command |-> "render", args |-> None]>>

\* a request was answered while the active file's project had no snapshot and
\* the other project had one
C13_Witness ==
    /\ handled.kind = "request"
    /\ handled.input.args.url = "upstreamTables"
    /\ activeTextEditor = Editor(fOrders)
    /\ StoredSnapshot(eventMap, ProjRoot) = None
    /\ StoredSnapshot(eventMap, OtherRoot) = Some(SnapA)
    /\ posted[1].args.body = Some([tables |-> None])

\* C14: a request whose url is neither "upstreamTables" nor "downstreamTables"
\* gets one response with the request's id, status true and an undefined body,
\* and leaves the store as it was.
C14_UnknownUrl ==
    [][(/\ handled'.kind = "request"
        /\ handled'.input.args.url \notin {"upstreamTables", "downstreamTables"})
       => /\ posted' = <<[command |-> "response",
                          args |-> [id |-> handled'.input.args.id,
                                    body |-> None,
                                    status |-> TRUE]]>>
          /\ eventMap' = eventMap]_vars

\* a request with another url was answered while the store held a snapshot for
\* the active file's project
C14_Witness ==
    /\ handled.kind = "request"
    /\ handled.input.args.url = "columnLineage"
    /\ handled.input.args.id = 8
    /\ activeTextEditor = Editor(fOrders)
    /\ StoredSnapshot(eventMap, ProjRoot) = Some(SnapA)
    /\ Len(posted) = 1
    /\ posted[1].args.id = 8
    /\ posted[1].args.body = None

(***************************************************************************)
(* Claims about what the handlers leave alone                              *)
(***************************************************************************)
\* C15: handling a "request" message, an "openFile" message or an
\* active-editor change, creating the panel, and sending a render leave the
\* store unchanged, the map and both views of every stored snapshot; only a
\* manifest-change event modifies the store.
C15_PureReads ==
    [][handled'.kind # "manifest" => eventMap' = eventMap]_vars

\* a request was answered with two tables in label order while the stored
\* neighbor list of the requested node is still in its stored order
C15_Witness ==
    /\ handled.kind = "request"
    /\ handled.input.args = [url |-> "upstreamTables", id |-> 7, params |-> [table |-> kSubOrders]]
    /\ activeTextEditor = Editor(fOrders)
    /\ StoredSnapshot(eventMap, ProjRoot) = Some(SnapB)
    /\ Len(posted) = 1
    /\ posted[1].args.body # None
    /\ Val(posted[1].args.body).tables # None
    /\ LET tables == Val(Val(posted[1].args.body).tables)
       IN  /\ Len(tables) = 2
           /\ tables[1].label = <<"a">>
           /\ tables[2].label = <<"B">>

(***************************************************************************)
(* Claims about requests among manifest events and editor switches         *)
(***************************************************************************)
\* the snapshot the applied events leave for the active file's project
CurrentSnapshot ==
    IF ActiveProject = None THEN None
    ELSE LET last == lastApplied[Val(ActiveProject)]
         IN  IF last.op = "Added" THEN last.snapshot ELSE None

\* C16: in every interleaving of manifest events, editor switches and
\* requests, a response body is computed from one snapshot, the one the store
\* holds when the request is handled for the project of the file active then:
\* the results are the neighbors that snapshot lists for the requested node and
\* every count is a length in the same view of the same snapshot; a snapshot
\* that an applied event replaced or removed contributes nothing.
C16_OneSnapshot ==
    (handled.kind = "request" /\ RequestedUrl \in {"upstreamTables", "downstreamTables"}) =>
        /\ Len(posted) = 1
        /\ posted[1].args.body # None
        /\ LET view == IF CurrentSnapshot = None THEN None
                       ELSE IF RequestedUrl = "upstreamTables"
                            THEN Some(Val(CurrentSnapshot).children)
                            ELSE Some(Val(CurrentSnapshot).parents)
               nodes == IF view = None THEN None ELSE StoredNodes(Val(view), RequestedTable)
           IN  IF nodes = None THEN AnsweredTables = None
               ELSE /\ AnsweredTables # None
                    /\ {t.table : t \in Range(Val(AnsweredTables))} = NeighborKeys(Val(nodes))
                    /\ \A t \in Range(Val(AnsweredTables)) :
                          /\ \E n \in Range(Val(nodes)) :
                                n.key = t.table /\ n.url = t.url /\ n.label = t.label
                          /\ LET own == StoredNodes(Val(view), t.table)
                             IN  t.count = IF own = None THEN 0 ELSE Len(Val(own))

\* a request was answered from the active project's snapshot while the store
\* held, in an older entry, another project's snapshot with other counts
C16_Witness ==
    /\ handled.kind = "request"
    /\ RequestedUrl = "upstreamTables"
    /\ RequestedTable = kSubOrders
    /\ activeTextEditor = Editor(fOrders)
    /\ Len(eventMap) = 2
    /\ eventMap[1].key = OtherRoot
    /\ eventMap[1].value.graphMetaMap = SnapA
    /\ StoredSnapshot(eventMap, ProjRoot) = Some(SnapB)
    /\ Len(posted) = 1
    /\ posted[1].args.body # None
    /\ AnsweredTables # None
    /\ Len(Val(AnsweredTables)) = 2
    /\ \A t \in Range(Val(AnsweredTables)) : t.count = 0

\* C17: applying Added(p, s) or Removed(p) changes only the store entry for
\* p: a project that no operation of a manifest event names has the same
\* get(q) before and after the event.
C17_OtherProjectsKept ==
    [][handled'.kind = "manifest" =>
          \A q \in ProjectRoots :
              (\A i \in 1..Len(OperationsOf(handled'.input)) :
                   OperationsOf(handled'.input)[i].projectRoot # q)
              => StoredSnapshot(eventMap', q) = StoredSnapshot(eventMap, q)]_vars

\* an event that adds and removes only the other project was applied while
\* the store held a snapshot for this project, which is still there
C17_Witness ==
    /\ handled.kind = "manifest"
    /\ handled.input.added = <<[projectRoot |-> OtherRoot, graphMetaMap |-> SnapB]>>
    /\ handled.input.removed = <<[projectRoot |-> OtherRoot]>>
    /\ lastApplied[ProjRoot].op = "Added"
    /\ StoredSnapshot(eventMap, ProjRoot) = Some(SnapA)
    /\ StoredSnapshot(eventMap, OtherRoot) = None

\* C18: every "request" message the panel receives produces exactly one
\* "response" message with the request's id and status true, posted by the
\* handler before any other message is handled, so responses follow the order
\* of their requests; no other handler posts a response.
C18_OneResponsePerRequest ==
    /\ handled.kind = "request" =>
          /\ Len(posted) = 1
          /\ posted[1].command = "response"
          /\ posted[1].args.id = handled.input.args.id
          /\ posted[1].args.status = TRUE
    /\ (\E i \in 1..Len(posted) : posted[i].command = "response") =>
          handled.kind = "request"

\* a request with id 8 got its one response, with that id and its tables
C18_Witness ==
    /\ handled.kind = "request"
    /\ handled.input.args = [url |-> "downstreamTables", id |-> 8, params |-> [table |-> kStg]]
    /\ activeTextEditor = Editor(fOrders)
    /\ StoredSnapshot(eventMap, ProjRoot) = Some(SnapA)
    /\ posted = <<[command |-> "response",
                   args |-> [id |-> 8,
                             body |-> Some([tables |-> Some(<<[table |-> kOrders,
                                                               url |-> "/proj/y.sql",
                                                               count |-> 0,
                                                               label |-> <<"B">>]>>)]),
                             status |-> TRUE]]>>

(***************************************************************************)
(* Claims relating the resolver's counts to the query results              *)
(***************************************************************************)
\* the node the resolver returns in the current state
CurrentNode == GetStartingNode(eventMap, activeTextEditor)

\* C19: in one store state with a resolved current node k, the number of
\* results of "upstreamTables" for k (an absent result counts 0) is at most
\* the resolver's upstreamCount, and equals it exactly when k's neighbor keys in
\* that view are pairwise distinct; likewise "downstreamTables" and
\* downstreamCount.
C19_ResultsWithinCounts ==
    (Answered /\ CurrentNode # None /\ RequestedTable = Val(CurrentNode).node.table) =>
        LET results == IF AnsweredTables = None THEN 0 ELSE Len(Val(AnsweredTables))
            count == IF RequestedUrl = "upstreamTables"
                     THEN Val(CurrentNode).node.upstreamCount
                     ELSE Val(CurrentNode).node.downstreamCount
            nodes == IF RequestedNodes = None THEN <<>> ELSE Val(RequestedNodes)
            distinct == \A i, j \in 1..Len(nodes) : i # j => nodes[i].key # nodes[j].key
        IN  /\ results <= count
            /\ (results = count) <=> distinct

\* the resolved node lists one key twice in the upstream-view: one result, count 2
C19_Witness ==
    /\ Answered
    /\ CurrentNode # None
    /\ RequestedTable = Val(CurrentNode).node.table
    /\ RequestedUrl = "upstreamTables"
    /\ Val(CurrentNode).node.upstreamCount = 2
    /\ AnsweredTables # None
    /\ Len(Val(AnsweredTables)) = 1

====
